---- MODULE Spec2Model ----
(***************************************************************************)
(* SMSE backend: content ingestion, task tracking, multimodal search and   *)
(* the multipart query combiner, as state machines over the relational     *)
(* store (contents, embeddings, queries, search_records, tasks) and the    *)
(* job system (Celery jobs and their result backend).                      *)
(*                                                                         *)
(* Numbers: similarity scores and thresholds are in hundredths (0.65 is    *)
(* 65); vector components are exact rationals [n |-> _, d |-> _] in lowest *)
(* terms, so floating-point rounding is outside the model.                 *)
(***************************************************************************)
EXTENDS Integers, Sequences, FiniteSets, TLC

VARIABLES
    contents,        \* contents table: id -> [user_id, ext, embedding_id]
    embeddings,      \* embeddings table: id -> [vector, modality]
    queries,         \* queries table: id -> [user_id, embedding_id]
    search_records,  \* search_records table: id -> [query_id, content_id, similarity_score]
    tasks,           \* tasks table: id -> Task row
    jobs,            \* job system: job id -> [ran, status, result, content_id, ext]
    resp,            \* the response of the last HTTP request handled
    call,            \* the last call of the query combiner made on its own
    disk,            \* the upload folder: [entries, dirs, ticks]
    sweep,           \* the report of the last purge sweep
    query_jobs,      \* process_query jobs still running when their wait ended
    walk,            \* the position of a purge sweep taken step by step
    upload,          \* the position of a query upload taken step by step
    runtime          \* the model singleton of a worker process and its callers

vars == <<contents, embeddings, queries, search_records, tasks, jobs, resp, call, disk,
          sweep, query_jobs, walk, upload, runtime>>

-----------------------------------------------------------------------------
(* Bounds of the model *)

MaxContents == 2

MaxQueries == 1

MaxLimit == 2

MaxParts == 3

MaxFiles == 2

MaxTicks == 2

MaxQueryJobs == 1

MaxFileParts == 2

MaxWorkers == 2

Users == {1, 2}

\* ALLOWED_EXTENSIONS: the file extensions accepted for upload
Extensions == {"txt", "jpg", "wav"}

\* the extensions EXTENSION_TO_MODALITY has a key for: the ones accepted for
\* upload and others, of which "png" is kept
MappedExtensions == Extensions \cup {"png"}

EXTENSION_TO_MODALITY ==
    [e \in MappedExtensions |->
        CASE e \in {"jpg", "png"} -> "image"
          [] e = "wav" -> "audio"
          [] OTHER     -> "text"]

\* the extensions a posted file or a content path can have; "xyz" has no key
\* in EXTENSION_TO_MODALITY
FileExtensions == MappedExtensions \cup {"xyz"}

is_allowed_file(ext) == ext \in Extensions

\* None is written "none"
get_modality_from_extension(ext) ==
    IF ext \in DOMAIN EXTENSION_TO_MODALITY THEN EXTENSION_TO_MODALITY[ext] ELSE "none"

Modalities == {"text", "image", "audio"}

-----------------------------------------------------------------------------
(* Vectors: exact rationals *)

Abs(x) == IF x < 0 THEN -x ELSE x

RECURSIVE Gcd(_, _)
Gcd(a, b) == IF b = 0 THEN a ELSE Gcd(b, a % b)

\* the rational n/d (d > 0) in lowest terms
Rat(n, d) ==
    LET g == Gcd(Abs(n), d)
    IN  [n |-> n \div g, d |-> d \div g]

Vec(a, b) == <<Rat(a, 1), Rat(b, 1)>>

\* the vectors the embedding model produces for stored files
StoredVectors == {Vec(1, 0), Vec(3, 4), Vec(4, 15)}

\* the dimension of the vector column
Dim == Len(Vec(1, 0))

AddRat(a, b) == Rat(a.n * b.d + b.n * a.d, a.d * b.d)

\* a / k for an integer k > 0
DivRat(a, k) == Rat(a.n, a.d * k)

RECURSIVE DenProduct(_)
DenProduct(v) == IF v = <<>> THEN 1 ELSE Head(v).d * DenProduct(Tail(v))

\* v scaled by the product of its denominators: an integer vector of the same
\* direction
IntVec(v) == [i \in DOMAIN v |-> v[i].n * (DenProduct(v) \div v[i].d)]

RECURSIVE Dot(_, _)
Dot(a, b) == IF a = <<>> THEN 0 ELSE Head(a) * Head(b) + Dot(Tail(a), Tail(b))

\* the integer square root of x, for lo * lo <= x < (hi + 1) * (hi + 1)
RECURSIVE ISqrtIn(_, _, _)
ISqrtIn(x, lo, hi) ==
    IF lo = hi THEN lo
    ELSE LET mid == (lo + hi + 1) \div 2
         IN  IF mid * mid <= x THEN ISqrtIn(x, mid, hi) ELSE ISqrtIn(x, lo, mid - 1)

ISqrt(x) == ISqrtIn(x, 0, x)

\* 1 - (v <=> q), pgvector's cosine distance, in hundredths rounded towards 0;
\* q and v are non-zero vectors of the same dimension
Similarity(q, v) ==
    LET a == IntVec(q)
        b == IntVec(v)
        d == Dot(a, b)
        r == ISqrt((10000 * d * d) \div (Dot(a, a) * Dot(b, b)))
    IN  IF d >= 0 THEN r ELSE -r

-----------------------------------------------------------------------------
(* Responses *)

\* op: the handler; code: the HTTP status; arg: the id the request named (or
\* the limit of a search); modalities: the modalities a search asked for;
\* view: the formatted tasks; results: the ranked list; request, enqueued and
\* saved: the parts a search posted, the parts a job was enqueued for and the
\* keys of the query files the handler saved
NoResp ==
    [op |-> "none", user |-> 0, code |-> 0, arg |-> 0, modalities |-> <<>>,
     view |-> <<>>, results |-> <<>>, request |-> <<>>, enqueued |-> <<>>,
     saved |-> <<>>]

Response(op, user, code, arg) ==
    [op |-> op, user |-> user, code |-> code, arg |-> arg, modalities |-> <<>>,
     view |-> <<>>, results |-> <<>>, request |-> <<>>, enqueued |-> <<>>,
     saved |-> <<>>]

\* no response is waiting to be sent: a request handler runs to its response,
\* which is sent before the next request or job step is taken up
Idle == resp = NoResp

\* the response of the last request handled is sent to the client
Respond ==
    /\ resp # NoResp
    /\ resp' = NoResp
    /\ UNCHANGED <<contents, embeddings, queries, search_records, tasks, jobs, call,
                   disk, sweep, query_jobs, walk, upload, runtime>>

-----------------------------------------------------------------------------
(* Job system *)

\* datetime.now(): the instant the reads stamp; time does not advance in this
\* model, a completion time is NULL (0) or Now
Now == 1

\* AsyncResult(id).status: PENDING for a job that has not run, and for a job
\* whose result the backend no longer holds
LiveStatus(j) == jobs[j].status

\* str(celery_task.result)
Str(r) == <<"str", r>>

ErrorRetrievingResult == <<"Error retrieving result data">>

-----------------------------------------------------------------------------
(* Content ingestion *)

\* POST /contents: the Content row is committed first, then the job is
\* enqueued, then the Task row is committed; an exception after the first
\* commit rolls back only what was not yet committed.
CreateContent(u, ext, failure) ==
    /\ Idle
    /\ Len(contents) < MaxContents
    /\ LET content_id == Len(contents) + 1
           task_id    == Len(jobs) + 1
           content    == [user_id |-> u, ext |-> ext, embedding_id |-> 0]
           job        == [ran |-> FALSE, status |-> "PENDING", result |-> <<>>,
                          content_id |-> content_id, ext |-> ext]
       IN  CASE ~is_allowed_file(ext) ->
                  /\ UNCHANGED <<contents, jobs, tasks>>
                  /\ resp' = Response("create_content", u, 400, 0)
             [] is_allowed_file(ext) /\ failure = "enqueue" ->
                  /\ contents' = Append(contents, content)
                  /\ UNCHANGED <<jobs, tasks>>
                  /\ resp' = Response("create_content", u, 500, 0)
             [] is_allowed_file(ext) /\ failure = "task_commit" ->
                  /\ contents' = Append(contents, content)
                  /\ jobs' = Append(jobs, job)
                  /\ UNCHANGED tasks
                  /\ resp' = Response("create_content", u, 500, 0)
             [] OTHER ->
                  /\ contents' = Append(contents, content)
                  /\ jobs' = Append(jobs, job)
                  /\ tasks' = Append(tasks, [task_id |-> task_id, status |-> "PENDING",
                                             completed_at |-> 0, result |-> <<>>,
                                             content_id |-> content_id, user_id |-> u])
                  /\ resp' = Response("create_content", u, 201, task_id)
    /\ UNCHANGED <<embeddings, queries, search_records, call, disk, sweep, query_jobs,
                   walk, upload, runtime>>

\* _get_smse_modality_for_file: image, audio, anything else is text
SmseModality(ext) ==
    LET m == get_modality_from_extension(ext)
    IN  IF m = "image" THEN "image" ELSE IF m = "audio" THEN "audio" ELSE "text"

\* process_file that stores the Embedding and leaves the Content without it
ProcessFileNoAttach(j, vector, outcome) ==
    /\ Idle
    /\ j \in DOMAIN jobs
    /\ ~jobs[j].ran
    /\ LET modality     == SmseModality(jobs[j].ext)
           content_id   == jobs[j].content_id
           embedding_id == Len(embeddings) + 1
       IN  IF outcome = "ok"
           THEN /\ embeddings' = Append(embeddings, [vector |-> vector, modality |-> modality])
                /\ UNCHANGED contents
                /\ jobs' = [jobs EXCEPT ![j].ran = TRUE, ![j].status = "SUCCESS",
                                        ![j].result = <<"success", embedding_id, content_id, modality>>]
           ELSE /\ UNCHANGED <<embeddings, contents>>
                /\ jobs' = [jobs EXCEPT ![j].ran = TRUE, ![j].status = "FAILURE",
                                        ![j].result = <<outcome>>]
    /\ UNCHANGED <<queries, search_records, tasks, resp, call, disk, sweep, query_jobs,
                   walk, upload, runtime>>

\* the worker runs process_file for job j
ProcessFile(j, vector, outcome) ==
    /\ Idle
    /\ j \in DOMAIN jobs
    /\ ~jobs[j].ran
    /\ LET modality     == SmseModality(jobs[j].ext)
           content_id   == jobs[j].content_id
           embedding_id == Len(embeddings) + 1
       IN  IF outcome = "ok"
           THEN /\ embeddings' = Append(embeddings, [vector |-> vector, modality |-> modality])
                /\ contents' =
                     IF content_id \in DOMAIN contents
                     THEN [contents EXCEPT ![content_id].embedding_id = embedding_id]
                     ELSE contents
                /\ jobs' = [jobs EXCEPT ![j].ran = TRUE, ![j].status = "SUCCESS",
                                        ![j].result = <<"success", embedding_id, content_id, modality>>]
           ELSE /\ UNCHANGED <<embeddings, contents>>
                /\ jobs' = [jobs EXCEPT ![j].ran = TRUE, ![j].status = "FAILURE",
                                        ![j].result = <<outcome>>]
    /\ UNCHANGED <<queries, search_records, tasks, resp, call, disk, sweep, query_jobs,
                   walk, upload, runtime>>

\* the result backend drops the stored result of a finished job
ResultExpire(j) ==
    /\ Idle
    /\ j \in DOMAIN jobs
    /\ jobs[j].ran
    /\ jobs[j].status # "PENDING"
    /\ jobs' = [jobs EXCEPT ![j].status = "PENDING", ![j].result = <<>>]
    /\ UNCHANGED <<contents, embeddings, queries, search_records, tasks, resp, call,
                   disk, sweep, query_jobs, walk, upload, runtime>>

\* PUT /contents/<id>: the path of a Content of the caller is replaced by one
\* with extension ext (its own extension when the path is not part of the
\* request); the embedding is left as it is. commit_fail: the commit fails
\* and is rolled back
UpdateContent(u, content_id, ext, commit_fail) ==
    /\ Idle
    /\ IF content_id \notin DOMAIN contents \/ contents[content_id].user_id # u
       THEN /\ ~commit_fail
            /\ resp' = Response("update_content", u, 404, content_id)
            /\ UNCHANGED contents
       ELSE IF commit_fail
       THEN /\ resp' = Response("update_content", u, 500, content_id)
            /\ UNCHANGED contents
       ELSE /\ contents' = [contents EXCEPT ![content_id].ext = ext]
            /\ resp' = Response("update_content", u, 200, content_id)
    /\ UNCHANGED <<embeddings, queries, search_records, tasks, jobs, call, disk, sweep,
                   query_jobs, walk, upload, runtime>>

-----------------------------------------------------------------------------
(* Task tracking: GET /tasks/<task_id> and GET /tasks *)

Terminal == {"SUCCESS", "FAILURE"}

\* what the reads of the job system do during one reconcile:
\*   "ok"           status and result are read
\*   "raise"        reading the status raises (job system unreachable)
\*   "result_raise" the status is read, reading the result raises
LiveOutcomes == {"ok", "raise", "result_raise"}

\* Reconcile with the fallback broken: an unreachable job system marks the
\* task failed
ReconcileFailsOnRaise(task, outcome) ==
    IF outcome = "raise"
    THEN [task EXCEPT !.status = "FAILURE", !.completed_at = Now]
    ELSE LET current_status == LiveStatus(task.task_id)
         IN  IF current_status # task.status
             THEN [task EXCEPT
                     !.status = current_status,
                     !.completed_at = IF current_status \in Terminal THEN Now ELSE @,
                     !.result =
                        IF current_status = "SUCCESS"
                        THEN IF outcome = "result_raise"
                             THEN ErrorRetrievingResult
                             ELSE Str(jobs[task.task_id].result)
                        ELSE @]
             ELSE task

\* Reconcile that stamps the completion time on SUCCESS only
ReconcileNoFailureStamp(task, outcome) ==
    IF outcome = "raise"
    THEN task
    ELSE LET current_status == LiveStatus(task.task_id)
         IN  IF current_status # task.status
             THEN [task EXCEPT
                     !.status = current_status,
                     !.completed_at = IF current_status = "SUCCESS" THEN Now ELSE @,
                     !.result =
                        IF current_status = "SUCCESS"
                        THEN IF outcome = "result_raise"
                             THEN ErrorRetrievingResult
                             ELSE Str(jobs[task.task_id].result)
                        ELSE @]
             ELSE task

\* the try block of get_task / get_tasks for one Task row: the row after it
Reconcile(task, outcome) ==
    IF outcome = "raise"
    THEN task
    ELSE LET current_status == LiveStatus(task.task_id)
         IN  IF current_status # task.status
             THEN [task EXCEPT
                     !.status = current_status,
                     !.completed_at =
                        IF current_status \in Terminal THEN Now ELSE @,
                     !.result =
                        IF current_status = "SUCCESS"
                        THEN IF outcome = "result_raise"
                             THEN ErrorRetrievingResult
                             ELSE Str(jobs[task.task_id].result)
                        ELSE @]
             ELSE task

\* the job system reads one reconcile of `task` makes, hence the ways they can
\* go: the result is read only after a status read that returned SUCCESS for
\* a task not stored as SUCCESS
OutcomesFor(task) ==
    IF LiveStatus(task.task_id) = "SUCCESS" /\ task.status # "SUCCESS"
    THEN LiveOutcomes
    ELSE LiveOutcomes \ {"result_raise"}

\* the status the response reports: the live status, or the stored one when
\* the status read raised
CurrentStatus(task, outcome) ==
    IF outcome = "raise" THEN task.status ELSE LiveStatus(task.task_id)

FormatTask(id, task, current_status, outcome) ==
    [id |-> id, task_id |-> task.task_id, status |-> current_status,
     completed_at |-> task.completed_at, content_id |-> task.content_id,
     result |-> task.result, raised |-> (outcome = "raise")]

\* Task.query.filter_by(...): the ids of the matching rows, in id order
TasksOf(u) == {i \in DOMAIN tasks : tasks[i].user_id = u}

\* the lookup without the user filter
FindTaskAnyUser(task_id, u) ==
    {i \in DOMAIN tasks : tasks[i].task_id = task_id}

FindTask(task_id, u) ==
    {i \in DOMAIN tasks : tasks[i].task_id = task_id /\ tasks[i].user_id = u}

RECURSIVE SetToSeq(_)
SetToSeq(S) ==
    IF S = {} THEN <<>>
    ELSE LET x == CHOOSE y \in S : \A z \in S : y <= z
         IN  <<x>> \o SetToSeq(S \ {x})

GetTask(u, task_id, outcome) ==
    /\ Idle
    /\ \A i \in FindTask(task_id, u) : outcome \in OutcomesFor(tasks[i])
    /\ IF FindTask(task_id, u) = {}
       THEN /\ resp' = Response("get_task", u, 404, task_id)
            /\ UNCHANGED tasks
       ELSE LET i    == CHOOSE k \in FindTask(task_id, u) : TRUE
                task == Reconcile(tasks[i], outcome)
            IN  /\ tasks' = [tasks EXCEPT ![i] = task]
                /\ resp' = [Response("get_task", u, 200, task_id) EXCEPT
                              !.view = <<FormatTask(i, task,
                                          CurrentStatus(tasks[i], outcome), outcome)>>]
    /\ UNCHANGED <<contents, embeddings, queries, search_records, jobs, call, disk,
                   sweep, query_jobs, walk, upload, runtime>>

GetTasks(u, outcomes) ==
    /\ Idle
    /\ \A i \in TasksOf(u) : outcomes[i] \in OutcomesFor(tasks[i])
    /\ tasks' = [i \in DOMAIN tasks |->
                    IF i \in TasksOf(u) THEN Reconcile(tasks[i], outcomes[i]) ELSE tasks[i]]
    /\ LET ids == SetToSeq(TasksOf(u))
       IN  resp' = [Response("get_tasks", u, 200, 0) EXCEPT
                      !.view = [k \in DOMAIN ids |->
                                  FormatTask(ids[k], tasks'[ids[k]],
                                             CurrentStatus(tasks[ids[k]], outcomes[ids[k]]),
                                             outcomes[ids[k]])]]
    /\ UNCHANGED <<contents, embeddings, queries, search_records, jobs, call, disk,
                   sweep, query_jobs, walk, upload, runtime>>

-----------------------------------------------------------------------------
(* Multipart query combiner *)

\* (None, None)
NoEmbedding == [ok |-> FALSE, vector |-> <<>>, modality |-> "none"]

NoCall == [made |-> FALSE, embs |-> <<>>, modalities |-> <<>>, result |-> NoEmbedding]

RECURSIVE SumRat(_)
SumRat(xs) == IF xs = <<>> THEN Rat(0, 1) ELSE AddRat(Head(xs), SumRat(Tail(xs)))

\* the mean taken over one embedding too many
MeanVectorOffByOne(embs) ==
    [i \in DOMAIN embs[1] |->
        DivRat(SumRat([k \in DOMAIN embs |-> embs[k][i]]),
               Len(embs) + 1)]

\* np.mean(embeddings_array, axis=0) for arrays of one shape
MeanVector(embs) ==
    [i \in DOMAIN embs[1] |->
        DivRat(SumRat([k \in DOMAIN embs |-> embs[k][i]]), Len(embs))]

\* modality_counts[m]
Count(modalities, m) == Cardinality({k \in DOMAIN modalities : modalities[k] = m})

\* the maximum taken with the last of equally frequent modalities winning
PrimaryModalityLastSeen(modalities) ==
    LET k == CHOOSE i \in DOMAIN modalities :
                /\ \A j \in DOMAIN modalities :
                      Count(modalities, modalities[j]) <= Count(modalities, modalities[i])
                /\ \A j \in (i + 1)..Len(modalities) :
                      Count(modalities, modalities[j]) < Count(modalities, modalities[i])
                      \/ modalities[j] = modalities[i]
                /\ \A j \in (i + 1)..Len(modalities) : modalities[j] # modalities[i]
    IN  modalities[k]

\* max(modality_counts.items(), key=count)[0]: the dict keeps the modalities
\* in order of first appearance and max returns the first maximum
PrimaryModality(modalities) ==
    LET k == CHOOSE i \in DOMAIN modalities :
                /\ \A j \in DOMAIN modalities :
                      Count(modalities, modalities[j]) <= Count(modalities, modalities[i])
                /\ \A j \in 1..(i - 1) :
                      Count(modalities, modalities[j]) < Count(modalities, modalities[i])
    IN  modalities[k]

\* the combiner without the shape check: every embedding is cut to the
\* length of the shortest
generate_multipart_embedding_truncating(embs, modalities) ==
    IF embs = <<>>
    THEN NoEmbedding
    ELSE IF modalities = <<>>
         THEN NoEmbedding
         ELSE LET n == CHOOSE l \in {Len(embs[k]) : k \in DOMAIN embs} :
                          \A k \in DOMAIN embs : l <= Len(embs[k])
              IN  [ok |-> TRUE,
                   vector |-> MeanVector([k \in DOMAIN embs |-> SubSeq(embs[k], 1, n)]),
                   modality |-> PrimaryModality(modalities)]

generate_multipart_embedding(embs, modalities) ==
    IF embs = <<>>
    THEN NoEmbedding
    ELSE IF \E k \in DOMAIN embs : Len(embs[k]) # Len(embs[1])
         THEN NoEmbedding
         ELSE IF modalities = <<>>
              THEN NoEmbedding
              ELSE [ok |-> TRUE, vector |-> MeanVector(embs),
                    modality |-> PrimaryModality(modalities)]

-----------------------------------------------------------------------------
(* Search service *)

\* similarity thresholds: query modality -> target modality -> hundredths
modality_thresholds ==
    [q \in Modalities |->
        [m \in Modalities |->
            CASE q = "text"  /\ m = "text"  -> 65
              [] q = "text"  /\ m = "image" -> 20
              [] q = "text"  /\ m = "audio" -> 20
              [] q = "image" /\ m = "text"  -> 20
              [] q = "image" /\ m = "image" -> 50
              [] q = "image" /\ m = "audio" -> 15
              [] q = "audio" /\ m = "text"  -> 10
              [] q = "audio" /\ m = "image" -> 10
              [] OTHER                      -> 50]]

Min(a, b) == IF a < b THEN a ELSE b

Max(a, b) == IF a < b THEN b ELSE a

\* the orders in which the database may return rows of equal sort key
TieOrders == {f \in [DOMAIN contents -> DOMAIN contents] :
                 \A i, j \in DOMAIN contents : f[i] = f[j] => i = j}

\* the join without the filter on c.user_id
EligibleRowsAnyUser(user_id, modality) ==
    {c \in DOMAIN contents :
        /\ contents[c].embedding_id \in DOMAIN embeddings
        /\ embeddings[contents[c].embedding_id].modality = modality}

\* FROM contents c JOIN embeddings e ON c.embedding_id = e.id WHERE ...
EligibleRows(user_id, modality) ==
    {c \in DOMAIN contents :
        /\ contents[c].embedding_id \in DOMAIN embeddings
        /\ contents[c].user_id = user_id
        /\ embeddings[contents[c].embedding_id].modality = modality}

Row(c, query_embedding, modality) ==
    [content_id |-> c,
     similarity_score |->
        Similarity(query_embedding, embeddings[contents[c].embedding_id].vector),
     modality |-> modality]

\* ORDER BY similarity_score ASC, rows of equal score in the order of `ties`
RECURSIVE OrderByAsc(_, _)
OrderByAsc(rows, ties) ==
    IF rows = {} THEN <<>>
    ELSE LET first == CHOOSE r \in rows : \A s \in rows :
                         \/ r.similarity_score < s.similarity_score
                         \/ /\ r.similarity_score = s.similarity_score
                            /\ ties[r.content_id] <= ties[s.content_id]
         IN  <<first>> \o OrderByAsc(rows \ {first}, ties)

\* the statement is rejected for a negative LIMIT and for a query vector of
\* another dimension; the except clause then returns []
search_by_modality(query_embedding, user_id, modality, limit, ties) ==
    IF limit < 0 \/ Len(query_embedding) # Dim
    THEN <<>>
    ELSE LET rows == OrderByAsc({Row(c, query_embedding, modality) :
                                    c \in EligibleRows(user_id, modality)}, ties)
         IN  SubSeq(rows, 1, Min(limit, Len(rows)))

\* the test dropped: every candidate is kept
KeepAll(query_modality, modality, score) == TRUE

\* the threshold test of search(): not score < threshold
Keep(query_modality, modality, score) ==
    ~(score < modality_thresholds[query_modality][modality])

\* min_max_normalize applied to the scores of the kept candidates of one
\* modality, in hundredths
MinMaxNormalized(filtered_results) ==
    LET scores == {filtered_results[k].similarity_score : k \in DOMAIN filtered_results}
        lo == CHOOSE x \in scores : \A y \in scores : x <= y
        hi == CHOOSE x \in scores : \A y \in scores : y <= x
    IN  [k \in DOMAIN filtered_results |->
            [filtered_results[k] EXCEPT !.similarity_score =
                IF hi = lo THEN 100 ELSE (100 * (@ - lo)) \div (hi - lo)]]

\* normalized_scores = scores: the kept candidates carry their raw scores
\* into the merge
NormalizedScores(filtered_results) == filtered_results

\* the loop over search_modalities: all_results
RECURSIVE AllResults(_, _, _, _, _, _)
AllResults(query_embedding, query_modality, user_id, limit, search_modalities, ties) ==
    IF search_modalities = <<>> THEN <<>>
    ELSE LET modality == Head(search_modalities)
             rest == AllResults(query_embedding, query_modality, user_id, limit,
                                Tail(search_modalities), ties)
         IN  IF modality \notin Modalities
             THEN rest
             ELSE NormalizedScores(
                     SelectSeq(search_by_modality(query_embedding, user_id, modality,
                                                  limit, ties),
                               LAMBDA r : Keep(query_modality, modality,
                                               r.similarity_score))) \o rest

\* list.sort(key=normalized_score, reverse=True): descending and stable
RECURSIVE SortDescending(_)
SortDescending(results) ==
    IF results = <<>> THEN <<>>
    ELSE LET k == CHOOSE i \in DOMAIN results :
                    /\ \A j \in DOMAIN results :
                          results[j].similarity_score <= results[i].similarity_score
                    /\ \A j \in 1..(i - 1) :
                          results[j].similarity_score < results[i].similarity_score
         IN  <<results[k]>> \o
             SortDescending(SubSeq(results, 1, k - 1) \o
                            SubSeq(results, k + 1, Len(results)))

\* the pagination dropped
PaginateNone(results, limit) == results

\* all_results[0:limit], a Python slice: a negative limit counts from the end
Paginate(results, limit) ==
    IF limit >= 0
    THEN SubSeq(results, 1, Min(limit, Len(results)))
    ELSE SubSeq(results, 1, Max(0, Len(results) + limit))

search(query_embedding, query_modality, user_id, limit, search_modalities, ties) ==
    Paginate(SortDescending(AllResults(query_embedding, query_modality, user_id,
                                       limit, search_modalities, ties)), limit)

-----------------------------------------------------------------------------
(* Query embedding *)

\* a part of a posted query: the text field (kind "text") or a file with its
\* extension (kind "file"); kind "blank" is a text field without a usable
\* text. vector is what the process_query job computes for
\* the part; outcome is how the job ends for the caller that waits for it:
\* "success" the result arrives within the wait, "raise" the job fails,
\* "timeout" the job is still running when the wait ends
QueryPart(kind, ext, vector, outcome) ==
    [kind |-> kind, ext |-> ext, vector |-> vector, outcome |-> outcome]

JobOutcomes == {"success", "raise", "timeout"}

\* a part of a query as generate_query_embedding returns it
Part(vector, modality) == [vector |-> vector, modality |-> modality]

\* process_query: the modality in the job's result
PartModality(part) ==
    IF part.kind \in {"text", "blank"} THEN "text" ELSE SmseModality(part.ext)

\* a wait that takes whatever the job produces, however late
generate_query_embedding_late(part) ==
    IF part.outcome # "raise"
    THEN [raised |-> FALSE, vector |-> part.vector, modality |-> PartModality(part)]
    ELSE [raised |-> TRUE, vector |-> <<>>, modality |-> "none"]

\* generate_query_embedding: the job is enqueued and waited for; a failed job
\* and a wait that runs out both raise in the caller (process_query returns
\* a "success" result or raises, so the (None, None) return is never taken)
generate_query_embedding(part) ==
    IF part.outcome = "success"
    THEN [raised |-> FALSE, vector |-> part.vector, modality |-> PartModality(part)]
    ELSE [raised |-> TRUE, vector |-> <<>>, modality |-> "none"]

\* the test without strip(): whitespace counts as a text
HasTextUnstripped(part) == part.kind \in {"text", "blank"}

\* query_text and query_text.strip(): kind "blank" is a text field that is
\* empty or holds whitespace only
HasText(part) == part.kind = "text"

\* generate_unique_filename: the uuid prefix makes the name of the k-th part
\* of a request differ from every other name in the folder
unique_filename(k) == "query_" \o ToString(k)

\* nothing embedded yet: code 0 is "no response decided"; parts are the
\* embeddings collected, enqueued the parts a job was enqueued for, saved
\* the names of the query files saved (saved_files)
NoParts == [code |-> 0, parts |-> <<>>, enqueued |-> <<>>, saved |-> <<>>]

\* the text part and the loop over the files of search_files, from part k on
RECURSIVE EmbedParts(_, _, _)
EmbedParts(request, k, acc) ==
    IF k > Len(request)
    THEN IF acc.parts = <<>> THEN [acc EXCEPT !.code = 400] ELSE acc
    ELSE LET part == request[k]
             r    == generate_query_embedding(part)
             kept == IF part.kind = "file"
                     THEN [acc EXCEPT !.saved = Append(@, unique_filename(k))]
                     ELSE acc
             sent == [kept EXCEPT !.enqueued = Append(@, part)]
             got  == [sent EXCEPT !.parts = Append(@, Part(r.vector, r.modality))]
         IN  IF part.kind \in {"text", "blank"}
             THEN IF ~HasText(part)
                  THEN EmbedParts(request, k + 1, acc)
                  ELSE IF r.raised
                       THEN [sent EXCEPT !.code = 500]
                       ELSE EmbedParts(request, k + 1, got)
             ELSE IF part.ext \notin DOMAIN EXTENSION_TO_MODALITY
                  THEN [acc EXCEPT !.code = 400]
                  ELSE IF r.raised
                       THEN EmbedParts(request, k + 1, sent)
                       ELSE EmbedParts(request, k + 1, got)

\* the jobs of a request that were still running when their wait ended
StillRunning(u, enqueued) ==
    LET late == SelectSeq(enqueued, LAMBDA part : part.outcome = "timeout")
    IN  [k \in DOMAIN late |->
            [user_id |-> u, vector |-> late[k].vector, done |-> FALSE]]

\* a process_query job nobody waits for any more comes to its result
LateResult(j) ==
    /\ j \in DOMAIN query_jobs
    /\ ~query_jobs[j].done
    /\ query_jobs' = [query_jobs EXCEPT ![j].done = TRUE]
    /\ UNCHANGED <<contents, embeddings, queries, search_records, tasks, jobs, resp,
                   call, disk, sweep, walk, upload, runtime>>

-----------------------------------------------------------------------------
(* The upload folder and the purge sweep *)

\* age_in_hours: the age threshold of the scheduled sweep, in hours
AgeThreshold == 24

\* the hours that pass between two observations of the folder
Hours == {1, AgeThreshold}

FileNames == {"a", "b"}

\* str(user_id), the name of a user's directory
UserDir(u) == IF u = 1 THEN "1" ELSE "2"

\* directories, as paths below UPLOAD_FOLDER
ContentDir(u) == <<UserDir(u)>>

\* query files kept where the sweep looks: "queries/{user_id}/{unique_filename}"
ScratchDirScanned(u) == <<"queries", UserDir(u)>>

\* save_query_file: "{user_id}/queries/{unique_filename}"
ScratchDir(u) == <<UserDir(u), "queries">>

\* the directories the sweep visits: UPLOAD_FOLDER/queries/<user_dir>
ScannedDir(u) == <<"queries", UserDir(u)>>

\* an entry of a directory: a file or a subdirectory, last modified `age`
\* hours ago
Entry(dir, name, kind, age) == [dir |-> dir, name |-> name, kind |-> kind, age |-> age]

EmptyDisk == [entries |-> {}, dirs |-> {}, ticks |-> 0]

NoSweep == [made |-> FALSE, files_deleted |-> 0, raised |-> FALSE,
            failed |-> Entry(<<>>, "", "none", 0)]

Occupied(dir, name) == \E e \in disk.entries : e.dir = dir /\ e.name = name

\* a file is written into `dir`, which is created if missing
WriteFile(dir, name, kind) ==
    /\ Cardinality(disk.entries) < MaxFiles
    /\ ~Occupied(dir, name)
    /\ disk' = [disk EXCEPT !.entries = @ \cup {Entry(dir, name, kind, 0)},
                            !.dirs = @ \cup {dir}]
    /\ UNCHANGED <<contents, embeddings, queries, search_records, tasks, jobs, resp,
                   call, sweep, query_jobs, walk, upload, runtime>>

\* save_uploaded_file for a content upload: the permanent area
SaveContentFile(u, name) == WriteFile(ContentDir(u), name, "file")

\* save_query_file for a file part of a query: the scratch area
SaveQueryFile(u, name) == WriteFile(ScratchDir(u), name, "file")

\* anything else that writes below UPLOAD_FOLDER/queries: a file or a
\* subdirectory appears in a directory the sweep visits
ExternalWrite(u, name, kind) == WriteFile(ScannedDir(u), name, kind)

\* delete_file: the search route removes a scratch file it saved
DeleteQueryFile(u, name) ==
    /\ \E e \in disk.entries : e.dir = ScratchDir(u) /\ e.name = name
    /\ disk' = [disk EXCEPT !.entries =
                   {e \in @ : ~(e.dir = ScratchDir(u) /\ e.name = name)}]
    /\ UNCHANGED <<contents, embeddings, queries, search_records, tasks, jobs, resp,
                   call, sweep, query_jobs, walk, upload, runtime>>

\* h hours pass
Elapse(h) ==
    /\ disk.ticks < MaxTicks
    /\ disk.entries # {}
    /\ disk' = [disk EXCEPT !.ticks = @ + 1,
                            !.entries = {[e EXCEPT !.age = @ + h] : e \in @}]
    /\ UNCHANGED <<contents, embeddings, queries, search_records, tasks, jobs, resp,
                   call, sweep, query_jobs, walk, upload, runtime>>

\* the comparison of the sweep made non-strict
OldOrEqual(age) == age >= AgeThreshold

\* mod_time < threshold_time, with threshold_time = now - age_in_hours
Old(age) == age > AgeThreshold

\* the directories os.listdir(queries_dir) yields that are directories
ScannedDirs == {d \in disk.dirs : Len(d) = 2 /\ d[1] = "queries"}

ScannedEntries == {e \in disk.entries : e.dir \in ScannedDirs}

\* the orders in which os.listdir may yield the members of a finite set
RECURSIVE Orders(_)
Orders(S) ==
    IF S = {} THEN {<<>>}
    ELSE UNION {{<<x>> \o o : o \in Orders(S \ {x})} : x \in S}

NoEntry == Entry(<<>>, "", "none", 0)

\* the loops of the sweep. `dirs_left` are the user directories still to
\* visit and `files_left` the entries of directory d still to visit, both in
\* the order os.listdir yields them (`order` lists the entries of every
\* directory). `fault` names the entry on which the file system raises, in
\* os.path.getmtime (op = "getmtime") or in os.remove (op = "remove"). The
\* result is the folder after the sweep and what the function returns.
RECURSIVE WalkDirs(_, _, _, _, _, _)
RECURSIVE WalkFiles(_, _, _, _, _, _, _, _)
WalkDirs(dirs_left, order, entries, dirs, count, fault) ==
    IF dirs_left = <<>>
    THEN [entries |-> entries, dirs |-> dirs, files_deleted |-> count, raised |-> FALSE]
    ELSE WalkFiles(Head(dirs_left),
                   SelectSeq(order, LAMBDA e : e.dir = Head(dirs_left)),
                   Tail(dirs_left), order, entries, dirs, count, fault)

WalkFiles(d, files_left, dirs_left, order, entries, dirs, count, fault) ==
    IF files_left = <<>>
    THEN \* if not os.listdir(user_path): os.rmdir(user_path)
         WalkDirs(dirs_left, order, entries,
                  IF \E e \in entries : e.dir = d THEN dirs ELSE dirs \ {d},
                  count, fault)
    ELSE LET e    == Head(files_left)
             rest == Tail(files_left)
         IN  IF e.kind # "file"
             THEN WalkFiles(d, rest, dirs_left, order, entries, dirs, count, fault)
             ELSE IF e = fault.entry /\ (fault.op = "getmtime" \/ Old(e.age))
             THEN \* except Exception: return 0
                  [entries |-> entries, dirs |-> dirs, files_deleted |-> 0,
                   raised |-> TRUE]
             ELSE IF Old(e.age)
             THEN WalkFiles(d, rest, dirs_left, order, entries \ {e}, dirs,
                            count + 1, fault)
             ELSE WalkFiles(d, rest, dirs_left, order, entries, dirs, count, fault)

cleanup_temp_query_files(dir_order, order, fault) ==
    WalkDirs(dir_order, order, disk.entries, disk.dirs, 0, fault)

\* the scheduled sweep runs
Sweep(dir_order, order, fault) ==
    /\ ~sweep.made
    /\ LET done == cleanup_temp_query_files(dir_order, order, fault)
       IN  /\ disk' = [disk EXCEPT !.entries = done.entries, !.dirs = done.dirs]
           /\ sweep' = [made |-> TRUE, files_deleted |-> done.files_deleted,
                        raised |-> done.raised,
                        failed |-> IF done.raised THEN fault.entry ELSE NoEntry]
    /\ UNCHANGED <<contents, embeddings, queries, search_records, tasks, jobs, resp,
                   call, query_jobs, walk, upload, runtime>>

\* cleanup_task logs the count the sweep returned
LogSweep ==
    /\ sweep.made
    /\ sweep' = NoSweep
    /\ UNCHANGED <<contents, embeddings, queries, search_records, tasks, jobs, resp,
                   call, disk, query_jobs, walk, upload, runtime>>

-----------------------------------------------------------------------------
(* POST /search *)

\* no rollback of the rows written before the failure
PersistedUpToFailure(records, fail_at) ==
    IF fail_at = 0 THEN records ELSE SubSeq(records, 1, fail_at - 1)

\* the SearchRecord rows that remain after the second commit: fail_at = 0 is a
\* commit that succeeds, fail_at = k a failure on the k-th row, after which
\* the handler rolls the transaction back
Persisted(records, fail_at) == IF fail_at = 0 THEN records ELSE <<>>

SearchResponse(u, code, limit, modalities) ==
    [Response("search", u, code, limit) EXCEPT !.modalities = modalities]

\* the keys save_query_file returned for the files of a request
\* (saved_files): "{user_id}/queries/{unique_filename}"
SavedKeys(u, saved) ==
    [k \in DOMAIN saved |-> [dir |-> ScratchDir(u), name |-> saved[k]]]

\* the folder after save_file wrote the files of the keys
SaveAll(folder, keys) ==
    [folder EXCEPT
        !.entries = @ \cup {Entry(keys[k].dir, keys[k].name, "file", 0) : k \in DOMAIN keys},
        !.dirs = @ \cup {keys[k].dir : k \in DOMAIN keys}]

\* a clean-up loop that leaves the file saved last
DeleteSavedButLast(folder, keys) ==
    [folder EXCEPT !.entries =
        {e \in @ : ~\E k \in DOMAIN keys :
                       k < Len(keys) /\ e.dir = keys[k].dir /\ e.name = keys[k].name}]

\* for saved_file in saved_files: delete_file(saved_file)
DeleteSaved(folder, keys) ==
    [folder EXCEPT !.entries =
        {e \in @ : ~\E k \in DOMAIN keys :
                       e.dir = keys[k].dir /\ e.name = keys[k].name}]

\* request: the parts posted (see QueryPart); query_fail: the first commit
\* fails; fail_at: see Persisted; ties: see TieOrders. The files of the
\* request are saved as the loop over the parts reaches them, and each way
\* out of the handler runs its own loop over saved_files.
SearchFiles(u, request, limit, modalities, query_fail, fail_at, ties) ==
    /\ Idle
    /\ Len(queries) < MaxQueries
    /\ query_fail => fail_at = 0
    /\ LET front == EmbedParts(request, 1, NoParts)
           keys == SavedKeys(u, front.saved)
           written == SaveAll(disk, keys)
           parts == front.parts
           query_embeddings == [k \in DOMAIN parts |-> parts[k].vector]
           query_modalities == [k \in DOMAIN parts |-> parts[k].modality]
           combined == generate_multipart_embedding(query_embeddings, query_modalities)
           search_results == search(combined.vector, combined.modality, u, limit,
                                    modalities, ties)
           query_id == Len(queries) + 1
           records == [k \in DOMAIN search_results |->
                          [query_id |-> query_id,
                           content_id |-> search_results[k].content_id,
                           similarity_score |-> search_results[k].similarity_score]]
           answer(code) == [SearchResponse(u, code, limit, modalities) EXCEPT
                               !.request = request, !.enqueued = front.enqueued,
                               !.saved = keys]
           running == StillRunning(u, front.enqueued)
       IN  /\ Len(query_jobs) + Len(running) <= MaxQueryJobs
           /\ query_jobs' = query_jobs \o running
           /\ IF front.code # 0
              THEN /\ ~query_fail /\ fail_at = 0
                   /\ resp' = answer(front.code)
                   /\ disk' = DeleteSaved(written, keys)
                   /\ UNCHANGED <<embeddings, queries, search_records>>
              ELSE IF ~combined.ok
              THEN /\ ~query_fail /\ fail_at = 0
                   /\ resp' = answer(500)
                   /\ disk' = DeleteSaved(written, keys)
                   /\ UNCHANGED <<embeddings, queries, search_records>>
              ELSE IF query_fail \/ Len(combined.vector) # Dim
              THEN /\ fail_at = 0
                   /\ resp' = answer(500)
                   /\ disk' = DeleteSaved(written, keys)
                   /\ UNCHANGED <<embeddings, queries, search_records>>
              ELSE /\ fail_at \in 0..Len(search_results)
                   /\ embeddings' = Append(embeddings, [vector |-> combined.vector,
                                                        modality |-> combined.modality])
                   /\ queries' = Append(queries, [user_id |-> u,
                                                  embedding_id |-> Len(embeddings) + 1])
                   /\ search_records' = search_records \o Persisted(records, fail_at)
                   /\ resp' = IF fail_at = 0
                              THEN [answer(200) EXCEPT !.results = search_results]
                              ELSE answer(500)
                   /\ disk' = DeleteSaved(written, keys)
    /\ UNCHANGED <<contents, tasks, jobs, call, sweep, walk, upload, runtime>>

-----------------------------------------------------------------------------
(* The purge sweep and a query upload, step by step *)

\* no sweep is under way. pc is the position of the sweep: "dirs" before the
\* next user directory, "files" inside the file loop of directory d, "rmdir"
\* between the emptiness test of d and os.rmdir; dirs_left and files_left are
\* what the two os.listdir calls returned and the loops have not visited yet
NoWalk == [pc |-> "idle", dirs_left |-> <<>>, d |-> <<>>, files_left |-> <<>>,
           count |-> 0]

\* no upload is under way. pc: "ensured" after the directory of the file was
\* made sure of, "done" after the write; ok: the write succeeded; ensured_at
\* and wrote_at: where a sweep stood at the two steps
NoUpload == [pc |-> "idle", user |-> 0, name |-> "", ok |-> FALSE,
             ensured_at |-> "idle", wrote_at |-> "idle"]

\* what the sweep returns to cleanup_task
WalkReport(count, raised) ==
    [made |-> TRUE, files_deleted |-> count, raised |-> raised, failed |-> NoEntry]

\* the sweep begins: os.listdir(queries_dir)
WalkStart(dir_order) ==
    /\ walk.pc = "idle"
    /\ ~sweep.made
    /\ walk' = [NoWalk EXCEPT !.pc = "dirs", !.dirs_left = dir_order]
    /\ UNCHANGED <<contents, embeddings, queries, search_records, tasks, jobs, resp,
                   call, disk, sweep, query_jobs, upload, runtime>>

\* the head of the outer loop: a name that is no directory (any more) is
\* skipped, a directory is listed
WalkEnterDir(names) ==
    /\ walk.pc = "dirs"
    /\ walk.dirs_left # <<>>
    /\ LET d == Head(walk.dirs_left)
       IN  IF d \in disk.dirs
           THEN walk' = [walk EXCEPT !.pc = "files", !.d = d, !.files_left = names]
           ELSE /\ names = <<>>
                /\ walk' = [walk EXCEPT !.dirs_left = Tail(@)]
    /\ UNCHANGED <<contents, embeddings, queries, search_records, tasks, jobs, resp,
                   call, disk, sweep, query_jobs, upload, runtime>>

\* the names os.listdir(user_path) can return for the next directory
Listings ==
    IF walk.pc = "dirs" /\ walk.dirs_left # <<>> /\ Head(walk.dirs_left) \in disk.dirs
    THEN LET names == {e.name : e \in {x \in disk.entries : x.dir = Head(walk.dirs_left)}}
         IN  Orders(names)
    ELSE {<<>>}

\* one pass of the inner loop: isfile, getmtime, and os.remove of an old file
WalkFile ==
    /\ walk.pc = "files"
    /\ walk.files_left # <<>>
    /\ LET found == {e \in disk.entries :
                        e.dir = walk.d /\ e.name = Head(walk.files_left)}
           old   == {e \in found : e.kind = "file" /\ Old(e.age)}
       IN  /\ disk' = [disk EXCEPT !.entries = @ \ old]
           /\ walk' = [walk EXCEPT !.files_left = Tail(@),
                                   !.count = @ + Cardinality(old)]
    /\ UNCHANGED <<contents, embeddings, queries, search_records, tasks, jobs, resp,
                   call, sweep, query_jobs, upload, runtime>>

\* if not os.listdir(user_path)
WalkCheckEmpty ==
    /\ walk.pc = "files"
    /\ walk.files_left = <<>>
    /\ walk' = IF \E e \in disk.entries : e.dir = walk.d
               THEN [walk EXCEPT !.pc = "dirs", !.dirs_left = Tail(@)]
               ELSE [walk EXCEPT !.pc = "rmdir"]
    /\ UNCHANGED <<contents, embeddings, queries, search_records, tasks, jobs, resp,
                   call, disk, sweep, query_jobs, upload, runtime>>

\* os.rmdir(user_path): it raises for a directory that is no longer empty,
\* and the except clause of the sweep returns 0
WalkRmdir ==
    /\ walk.pc = "rmdir"
    /\ IF \E e \in disk.entries : e.dir = walk.d
       THEN /\ walk' = NoWalk
            /\ sweep' = WalkReport(0, TRUE)
            /\ UNCHANGED disk
       ELSE /\ walk' = [walk EXCEPT !.pc = "dirs", !.dirs_left = Tail(@)]
            /\ disk' = [disk EXCEPT !.dirs = @ \ {walk.d}]
            /\ UNCHANGED sweep
    /\ UNCHANGED <<contents, embeddings, queries, search_records, tasks, jobs, resp,
                   call, query_jobs, upload, runtime>>

\* return files_deleted
WalkReturn ==
    /\ walk.pc = "dirs"
    /\ walk.dirs_left = <<>>
    /\ walk' = NoWalk
    /\ sweep' = WalkReport(walk.count, FALSE)
    /\ UNCHANGED <<contents, embeddings, queries, search_records, tasks, jobs, resp,
                   call, disk, query_jobs, upload, runtime>>

\* save_file of a query upload, first half: os.makedirs(..., exist_ok=True)
UploadEnsureDir(u, name) ==
    /\ upload.pc = "idle"
    /\ Cardinality(disk.entries) < MaxFiles
    /\ ~Occupied(ScratchDir(u), name)
    /\ disk' = [disk EXCEPT !.dirs = @ \cup {ScratchDir(u)}]
    /\ upload' = [NoUpload EXCEPT !.pc = "ensured", !.user = u, !.name = name,
                                  !.ensured_at = walk.pc]
    /\ UNCHANGED <<contents, embeddings, queries, search_records, tasks, jobs, resp,
                   call, sweep, query_jobs, walk, runtime>>

\* save_file, second half: file_obj.save(full_path), which fails when the
\* directory is not there
UploadWrite ==
    /\ upload.pc = "ensured"
    /\ LET dir == ScratchDir(upload.user)
       IN  IF dir \in disk.dirs
           THEN /\ disk' = [disk EXCEPT !.entries =
                              @ \cup {Entry(dir, upload.name, "file", 0)}]
                /\ upload' = [upload EXCEPT !.pc = "done", !.ok = TRUE,
                                            !.wrote_at = walk.pc]
           ELSE /\ UNCHANGED disk
                /\ upload' = [upload EXCEPT !.pc = "done", !.ok = FALSE,
                                            !.wrote_at = walk.pc]
    /\ UNCHANGED <<contents, embeddings, queries, search_records, tasks, jobs, resp,
                   call, sweep, query_jobs, walk, runtime>>

\* save_query_file returns to the search route, or raises
UploadReturn ==
    /\ upload.pc = "done"
    /\ upload' = NoUpload
    /\ UNCHANGED <<contents, embeddings, queries, search_records, tasks, jobs, resp,
                   call, disk, sweep, query_jobs, walk, runtime>>

-----------------------------------------------------------------------------
(* The model singleton of a worker process *)

\* the callers that run embedding calls in one worker process at a time
Workers == 1..MaxWorkers

\* _model and the three pipelines are None; constructed counts the
\* constructions of the model. pc[w] is the position of caller w: "test" at
\* `if _model is None`, "model", "image", "audio", "text" before the
\* assignment of that global, "pipeline" before the call of the pipeline of
\* modality[w], "encode" before _model.encode; failed[w]: the last call of w
\* raised
NoRuntime ==
    [model |-> FALSE, image |-> FALSE, audio |-> FALSE, text |-> FALSE,
     constructed |-> 0,
     pc |-> [w \in Workers |-> "idle"],
     modality |-> [w \in Workers |-> "none"],
     failed |-> [w \in Workers |-> FALSE]]

\* _process_file or _process_text is called for an input of modality m
CallEmbed(w, m) ==
    /\ runtime.pc[w] = "idle"
    /\ runtime' = [runtime EXCEPT !.pc[w] = "test", !.modality[w] = m,
                                  !.failed[w] = FALSE]
    /\ UNCHANGED <<contents, embeddings, queries, search_records, tasks, jobs, resp,
                   call, disk, sweep, query_jobs, walk, upload>>

\* _initialize_model: if _model is None
TestModel(w) ==
    /\ runtime.pc[w] = "test"
    /\ runtime' = [runtime EXCEPT !.pc[w] = IF runtime.model THEN "pipeline" ELSE "model"]
    /\ UNCHANGED <<contents, embeddings, queries, search_records, tasks, jobs, resp,
                   call, disk, sweep, query_jobs, walk, upload>>

\* _model = ImageBindModel(device=device)
ConstructModel(w) ==
    /\ runtime.pc[w] = "model"
    /\ runtime' = [runtime EXCEPT !.pc[w] = "image", !.model = TRUE,
                                  !.constructed = @ + 1]
    /\ UNCHANGED <<contents, embeddings, queries, search_records, tasks, jobs, resp,
                   call, disk, sweep, query_jobs, walk, upload>>

\* _image_pipeline = ImagePipeline(...)
ConstructImage(w) ==
    /\ runtime.pc[w] = "image"
    /\ runtime' = [runtime EXCEPT !.pc[w] = "audio", !.image = TRUE]
    /\ UNCHANGED <<contents, embeddings, queries, search_records, tasks, jobs, resp,
                   call, disk, sweep, query_jobs, walk, upload>>

\* _audio_pipeline = AudioPipeline(...)
ConstructAudio(w) ==
    /\ runtime.pc[w] = "audio"
    /\ runtime' = [runtime EXCEPT !.pc[w] = "text", !.audio = TRUE]
    /\ UNCHANGED <<contents, embeddings, queries, search_records, tasks, jobs, resp,
                   call, disk, sweep, query_jobs, walk, upload>>

\* _text_pipeline = TextPipeline(...)
ConstructText(w) ==
    /\ runtime.pc[w] = "text"
    /\ runtime' = [runtime EXCEPT !.pc[w] = "pipeline", !.text = TRUE]
    /\ UNCHANGED <<contents, embeddings, queries, search_records, tasks, jobs, resp,
                   call, disk, sweep, query_jobs, walk, upload>>

\* the pipeline of the input's modality is called; calling None raises
UsePipeline(w) ==
    /\ runtime.pc[w] = "pipeline"
    /\ runtime' = IF runtime[runtime.modality[w]]
                  THEN [runtime EXCEPT !.pc[w] = "encode"]
                  ELSE [runtime EXCEPT !.pc[w] = "idle", !.failed[w] = TRUE]
    /\ UNCHANGED <<contents, embeddings, queries, search_records, tasks, jobs, resp,
                   call, disk, sweep, query_jobs, walk, upload>>

\* _model.encode(inputs), and the call returns
Encode(w) ==
    /\ runtime.pc[w] = "encode"
    /\ runtime' = [runtime EXCEPT !.pc[w] = "idle"]
    /\ UNCHANGED <<contents, embeddings, queries, search_records, tasks, jobs, resp,
                   call, disk, sweep, query_jobs, walk, upload>>

-----------------------------------------------------------------------------

Init ==
    /\ contents = <<>>
    /\ embeddings = <<>>
    /\ queries = <<>>
    /\ search_records = <<>>
    /\ tasks = <<>>
    /\ jobs = <<>>
    /\ resp = NoResp
    /\ call = NoCall
    /\ disk = EmptyDisk
    /\ sweep = NoSweep
    /\ query_jobs = <<>>
    /\ walk = NoWalk
    /\ upload = NoUpload
    /\ runtime = NoRuntime

\* Task tracking: uploads of text files by both users, the worker, the result
\* backend and the two status reads
TaskNext ==
    \/ \E u \in Users, f \in {"none", "enqueue", "task_commit"} :
          CreateContent(u, "txt", f)
    \/ \E j \in DOMAIN jobs, o \in {"ok", "error"} : ProcessFile(j, Vec(1, 0), o)
    \/ \E j \in DOMAIN jobs : ResultExpire(j)
    \/ \E u \in Users, task_id \in 1..MaxContents, o \in LiveOutcomes :
          GetTask(u, task_id, o)
    \/ /\ Idle
       /\ \E u \in Users : \E os \in [TasksOf(u) -> LiveOutcomes] : GetTasks(u, os)
    \/ Respond

TaskSpec == Init /\ [][TaskNext]_vars

\* the queries posed, every job of which succeeds: no part, a text, an image
\* file, a text and an image file, and a text with a text file for which the
\* model gives a vector of another shape
QueryParts ==
    {<<>>,
     <<QueryPart("text", "", Vec(1, 0), "success")>>,
     <<QueryPart("file", "jpg", Vec(1, 0), "success")>>,
     <<QueryPart("text", "", Vec(1, 0), "success"),
       QueryPart("file", "jpg", Vec(3, 4), "success")>>,
     <<QueryPart("text", "", Vec(1, 0), "success"),
       QueryPart("file", "txt", <<Rat(1, 1)>>, "success")>>}

\* the values of the modalities parameter: absent (the default list), one
\* modality, two modalities, and an unsupported one
ModalityLists ==
    {<<"text", "image", "audio">>, <<"text">>, <<"image", "text">>, <<"video">>}

Limits == (-1)..MaxLimit

\* the user who searches; both users upload
Searchers == {1}

\* Search: uploads of any kind by both users, the worker and POST /search
Next ==
    \/ \E u \in Users, ext \in Extensions : CreateContent(u, ext, "none")
    \/ \E j \in DOMAIN jobs, v \in StoredVectors, o \in {"ok", "error"} :
          ProcessFile(j, v, o)
    \/ /\ Idle
       /\ Len(queries) < MaxQueries
       /\ \E u \in Searchers, parts \in QueryParts, limit \in Limits,
             modalities \in ModalityLists, query_fail \in BOOLEAN,
             fail_at \in 0..MaxLimit :
             \E ties \in TieOrders :
                SearchFiles(u, parts, limit, modalities, query_fail, fail_at, ties)
    \/ Respond

Spec == Init /\ [][Next]_vars

\* the embeddings the combiner is given: vectors of the column's dimension,
\* one of them with a fractional component, and one of another shape
CombineVectors == {Vec(1, 0), Vec(3, 4), <<Rat(1, 2), Rat(0, 1)>>, <<Rat(2, 1)>>}

\* one call of generate_multipart_embedding on lists of equal length
Combine(embs, modalities) ==
    /\ call' = [made |-> TRUE, embs |-> embs, modalities |-> modalities,
                result |-> generate_multipart_embedding(embs, modalities)]
    /\ UNCHANGED <<contents, embeddings, queries, search_records, tasks, jobs, resp,
                   disk, sweep, query_jobs, walk, upload, runtime>>

CombineNext ==
    \E n \in 0..MaxParts :
       \E embs \in [1..n -> CombineVectors], modalities \in [1..n -> Modalities] :
          Combine(embs, modalities)

CombineSpec == Init /\ [][CombineNext]_vars

\* the text of a request and the files of a request
TextParts ==
    {QueryPart("text", "", Vec(1, 0), o) : o \in JobOutcomes}
       \cup {QueryPart("blank", "", Vec(1, 0), "success")}

FileParts ==
    {QueryPart("file", "jpg", Vec(3, 4), o) : o \in JobOutcomes}
       \cup {QueryPart("file", "xyz", Vec(3, 4), "success")}

\* the requests posed: a text or none, then up to MaxFileParts files
Requests ==
    LET files == UNION {[1..n -> FileParts] : n \in 0..MaxFileParts}
    IN  files \cup {<<t>> \o f : t \in TextParts, f \in files}

\* Query embedding: uploads of files of any extension by one user, the worker,
\* POST /search with parts whose jobs succeed, fail or run late, and the late
\* results
QueryNext ==
    \/ \E ext \in FileExtensions : CreateContent(1, ext, "none")
    \/ \E j \in DOMAIN jobs : ProcessFile(j, Vec(1, 0), "ok")
    \/ /\ Idle
       /\ Len(queries) < MaxQueries
       /\ \E request \in Requests : \E ties \in TieOrders :
             SearchFiles(1, request, MaxLimit, <<"text", "image", "audio">>,
                         FALSE, 0, ties)
    \/ \E j \in DOMAIN query_jobs : LateResult(j)
    \/ Respond

QuerySpec == Init /\ [][QueryNext]_vars

\* Content rows: uploads, the worker, and updates of the path by both users
ContentNext ==
    \/ \E u \in Users, ext \in Extensions : CreateContent(u, ext, "none")
    \/ \E j \in DOMAIN jobs, o \in {"ok", "error"} : ProcessFile(j, Vec(1, 0), o)
    \/ /\ Idle
       /\ \E u \in Users, content_id \in 1..MaxContents, ext \in FileExtensions,
             commit_fail \in BOOLEAN :
             UpdateContent(u, content_id, ext, commit_fail)
    \/ Respond

ContentSpec == Init /\ [][ContentNext]_vars

\* The sweep and a query upload interleaved: other writers below
\* UPLOAD_FOLDER/queries, the passing of hours between sweeps, the steps of
\* the sweep and the steps of the upload
RaceNext ==
    \/ \E u \in Users, name \in FileNames, kind \in {"file", "dir"} :
          ExternalWrite(u, name, kind)
    \/ /\ walk.pc = "idle"
       /\ \E h \in Hours : Elapse(h)
    \/ \E dir_order \in Orders(ScannedDirs) : WalkStart(dir_order)
    \/ \E names \in Listings : WalkEnterDir(names)
    \/ WalkFile
    \/ WalkCheckEmpty
    \/ WalkRmdir
    \/ WalkReturn
    \/ LogSweep
    \/ \E u \in Users, name \in FileNames : UploadEnsureDir(u, name)
    \/ UploadWrite
    \/ UploadReturn

RaceSpec == Init /\ [][RaceNext]_vars

\* Embedding calls of the callers of one worker process, interleaved
RuntimeNext ==
    \/ \E w \in Workers, m \in Modalities : CallEmbed(w, m)
    \/ \E w \in Workers : TestModel(w)
    \/ \E w \in Workers : ConstructModel(w)
    \/ \E w \in Workers : ConstructImage(w)
    \/ \E w \in Workers : ConstructAudio(w)
    \/ \E w \in Workers : ConstructText(w)
    \/ \E w \in Workers : UsePipeline(w)
    \/ \E w \in Workers : Encode(w)

RuntimeSpec == Init /\ [][RuntimeNext]_vars

\* The upload folder: content uploads, query uploads and their removal, other
\* writers below UPLOAD_FOLDER/queries, the passing of time, and the sweep
SweepNext ==
    \/ \E u \in Users, name \in FileNames : SaveContentFile(u, name)
    \/ \E u \in Users, name \in FileNames : SaveQueryFile(u, name)
    \/ \E u \in Users, name \in FileNames, kind \in {"file", "dir"} :
          ExternalWrite(u, name, kind)
    \/ \E u \in Users, name \in FileNames : DeleteQueryFile(u, name)
    \/ \E h \in Hours : Elapse(h)
    \/ \E dir_order \in Orders(ScannedDirs), order \in Orders(ScannedEntries),
          entry \in ScannedEntries \cup {NoEntry}, op \in {"getmtime", "remove"} :
          Sweep(dir_order, order, [entry |-> entry, op |-> op])
    \/ LogSweep

SweepSpec == Init /\ [][SweepNext]_vars

-----------------------------------------------------------------------------
(* Task tracking: properties *)

TaskReads == {"get_task", "get_tasks"}

\* a step of get_task or get_tasks: resp' is its response
TaskReadStep == Idle /\ resp'.op \in TaskReads

\* C4: once a Task's persisted status is SUCCESS or FAILURE, no later step
\* changes its persisted status, completion time or result.
TaskTerminalOnceResolved ==
    [][\A i \in DOMAIN tasks :
          tasks[i].status \in Terminal =>
             /\ tasks'[i].status = tasks[i].status
             /\ tasks'[i].completed_at = tasks[i].completed_at
             /\ tasks'[i].result = tasks[i].result]_vars

\* C5: when reading the job's status raises during a task read, the read
\* answers 200, reports the status persisted before the read, and leaves the
\* Task row as it was.
ReadFallsBackToPersisted ==
    [][TaskReadStep =>
          \A k \in DOMAIN resp'.view :
             LET v == resp'.view[k]
             IN  v.raised =>
                   /\ resp'.code = 200
                   /\ v.status = tasks[v.id].status
                   /\ tasks'[v.id] = tasks[v.id]]_vars

\* a read whose status read raised while the live status differed from the
\* stored one
ReadFellBack ==
    /\ resp.op \in TaskReads
    /\ \E k \in DOMAIN resp.view :
          /\ resp.view[k].raised
          /\ LiveStatus(resp.view[k].task_id) # resp.view[k].status

\* the reconcile rule of C6 for the row of view entry v, with the result
\* stored on SUCCESS drawn from `stored`
ReconcileRule(v, stored) ==
    LET old  == tasks[v.id]
        new  == tasks'[v.id]
        live == LiveStatus(old.task_id)
    IN  IF live # old.status
        THEN /\ new.status = live
             /\ live \in Terminal => new.completed_at = Now
             /\ live = "SUCCESS" => new.result \in stored
        ELSE new = old

\* C6 as stated: on a read whose live status differs from the stored one the
\* new status is persisted, a terminal status stamps the completion time and
\* SUCCESS stores the serialized job result; otherwise the row is unchanged.
ReadPersistsLiveStatus ==
    [][TaskReadStep =>
          \A k \in DOMAIN resp'.view :
             LET v == resp'.view[k]
             IN  ~v.raised =>
                   ReconcileRule(v, {Str(jobs[v.task_id].result)})]_vars

\* C6 amended: as C6, but on SUCCESS the stored result is the serialized job
\* result or, when reading the result raises, the text "Error retrieving
\* result data".
ReadPersistsLiveStatusOrPlaceholder ==
    [][TaskReadStep =>
          \A k \in DOMAIN resp'.view :
             LET v == resp'.view[k]
             IN  ~v.raised =>
                   ReconcileRule(v, {Str(jobs[v.task_id].result),
                                     ErrorRetrievingResult})]_vars

\* a read has persisted FAILURE with its completion time, and another task
\* holds the serialized result of its job
ReadPersistedTerminal ==
    /\ resp.op \in TaskReads
    /\ \E i \in DOMAIN tasks :
          /\ tasks[i].status = "FAILURE"
          /\ tasks[i].completed_at > 0
    /\ \E i \in DOMAIN tasks :
          /\ tasks[i].status = "SUCCESS"
          /\ tasks[i].completed_at > 0
          /\ tasks[i].result = Str(jobs[tasks[i].task_id].result)

\* C7: get_task by a user who did not create the task answers 404 and
\* changes no Task row; get_tasks lists, and reconciles, only the caller's
\* tasks.
TaskVisibleToOwnerOnly ==
    [][/\ (TaskReadStep /\ resp'.op = "get_task") =>
             \A i \in DOMAIN tasks :
                (tasks[i].task_id = resp'.arg /\ tasks[i].user_id # resp'.user) =>
                   /\ resp'.code = 404
                   /\ resp'.view = <<>>
                   /\ tasks' = tasks
       /\ (TaskReadStep /\ resp'.op = "get_tasks") =>
             /\ \A k \in DOMAIN resp'.view :
                   tasks[resp'.view[k].id].user_id = resp'.user
             /\ \A i \in DOMAIN tasks :
                   tasks[i].user_id # resp'.user => tasks'[i] = tasks[i]]_vars

\* a user asked for another user's task whose live status had moved on, and
\* got 404
ForeignTaskNotFound ==
    /\ resp.op = "get_task"
    /\ resp.code = 404
    /\ \E i \in DOMAIN tasks :
          /\ tasks[i].task_id = resp.arg
          /\ tasks[i].user_id # resp.user
          /\ LiveStatus(tasks[i].task_id) # tasks[i].status

-----------------------------------------------------------------------------
(* Search: properties *)

\* a step of search_files: resp' is its response
SearchStep == Idle /\ resp'.op = "search"

\* the response of a search that ran to the end
SearchDone == resp.op = "search" /\ resp.code = 200

\* the Query row of the search just answered and its embedding
QueryVector == embeddings[queries[Len(queries)].embedding_id].vector

QueryModality == embeddings[queries[Len(queries)].embedding_id].modality

ResultIds == {resp.results[k].content_id : k \in DOMAIN resp.results}

\* the raw score of content c against the query just answered
RawScore(c) == Similarity(QueryVector, embeddings[contents[c].embedding_id].vector)

AboveThreshold(c, m) == RawScore(c) >= modality_thresholds[QueryModality][m]

Asked(m) == \E k \in DOMAIN resp.modalities : resp.modalities[k] = m

\* C1: in the result of a search, no content of the user appears whose raw
\* score against the query is strictly below the threshold of (query
\* modality, the content's modality).
BelowThresholdNeverReturned ==
    SearchDone =>
       \A m \in Modalities : \A c \in EligibleRows(resp.user, m) :
          RawScore(c) < modality_thresholds[QueryModality][m] => c \notin ResultIds

\* a search asked for modality m with a limit that admits every candidate,
\* returned one content of m and left out another for its score
CandidateBelowThresholdDropped ==
    /\ SearchDone
    /\ \E m \in Modalities : \E c, d \in EligibleRows(resp.user, m) :
          /\ Asked(m)
          /\ resp.arg >= Cardinality(EligibleRows(resp.user, m))
          /\ ~AboveThreshold(c, m)
          /\ c \notin ResultIds
          /\ d \in ResultIds

NonIncreasing(results) ==
    \A i, j \in DOMAIN results :
       i < j => results[i].similarity_score >= results[j].similarity_score

NearestFirstWithinCap ==
    (SearchDone /\ resp.arg >= 0) =>
       \A m \in Modalities : \A ties \in TieOrders :
          LET rows     == search_by_modality(QueryVector, resp.user, m, resp.arg, ties)
              returned == {rows[k].content_id : k \in DOMAIN rows}
          IN  /\ Len(rows) = Min(resp.arg, Cardinality(EligibleRows(resp.user, m)))
              /\ NonIncreasing(rows)
              /\ \A c \in EligibleRows(resp.user, m) \ returned :
                    \A d \in returned : RawScore(c) <= RawScore(d)

\* the SearchRecord rows of the results of a search for query query_id
RecordsOf(results, query_id) ==
    [k \in DOMAIN results |->
        [query_id |-> query_id, content_id |-> results[k].content_id,
         similarity_score |-> results[k].similarity_score]]

\* C8: a search that stored its Query row either answers 200 and has stored
\* one SearchRecord per result, or answers 500 and has stored none; in both
\* cases the Query row exists, owned by the caller, and older SearchRecords
\* are untouched.
SearchRecordsAllOrNothing ==
    [][(SearchStep /\ queries' # queries) =>
          /\ queries' = Append(queries, queries'[Len(queries')])
          /\ queries'[Len(queries')].user_id = resp'.user
          /\ \/ /\ resp'.code = 200
                /\ search_records' =
                      search_records \o RecordsOf(resp'.results, Len(queries'))
             \/ /\ resp'.code = 500
                /\ resp'.results = <<>>
                /\ search_records' = search_records]_vars

\* a search whose results numbered two or more failed while storing them:
\* the answer is 500, the Query row is there and has no SearchRecord
RecordCommitFailed ==
    /\ resp.op = "search"
    /\ resp.code = 500
    /\ queries # <<>>
    /\ \A k \in DOMAIN search_records : search_records[k].query_id # Len(queries)
    /\ \E ties \in TieOrders :
          Len(search(QueryVector, QueryModality, resp.user, resp.arg,
                     resp.modalities, ties)) >= 2

\* the step in which the worker finishes job j with success
ProcessFileSucceeds(j) ==
    /\ ~jobs[j].ran
    /\ jobs'[j].ran
    /\ jobs'[j].status = "SUCCESS"

Eligible(c) == c \in EligibleRows(contents[c].user_id, SmseModality(contents[c].ext))

\* C9: a content whose embedding is null is in no search result and in no
\* SearchRecord; the step in which process_file succeeds for a content leaves
\* it among the rows the per-modality query of its owner and modality reads.
NullEmbeddingNeverReturned ==
    /\ [](/\ resp.op = "search" =>
                \A c \in ResultIds : contents[c].embedding_id # 0
          /\ \A k \in DOMAIN search_records :
                contents[search_records[k].content_id].embedding_id # 0)
    /\ [][\A j \in DOMAIN jobs :
             (ProcessFileSucceeds(j) /\ jobs[j].content_id \in DOMAIN contents) =>
                Eligible(jobs[j].content_id)']_vars

\* a search returned, and recorded, a content that process_file had given
\* its embedding, while another content of the same user had none yet
EmbeddedReturnedNullLeftOut ==
    /\ SearchDone
    /\ \E c \in ResultIds, d \in DOMAIN contents :
          /\ contents[d].user_id = resp.user
          /\ contents[d].embedding_id = 0
          /\ d \notin ResultIds
          /\ \E k \in DOMAIN search_records : search_records[k].content_id = c

-----------------------------------------------------------------------------
(* Multipart query combiner: properties *)

RECURSIVE Product(_)
Product(xs) == IF xs = <<>> THEN 1 ELSE Head(xs) * Product(Tail(xs))

RECURSIVE Sum(_)
Sum(xs) == IF xs = <<>> THEN 0 ELSE Head(xs) + Sum(Tail(xs))

\* r is the arithmetic mean of the rationals xs: with D the product of the
\* denominators, r * Len(xs) * D = the sum of the xs[k] * D
IsMeanOf(r, xs) ==
    LET D == Product([k \in DOMAIN xs |-> xs[k].d])
    IN  r.n * Len(xs) * D = r.d * Sum([k \in DOMAIN xs |-> xs[k].n * (D \div xs[k].d)])

SameLength(embs) == \A k \in DOMAIN embs : Len(embs[k]) = Len(embs[1])

\* C10: for a non-empty list of embeddings of one length the combiner returns
\* the element-wise arithmetic mean; a single embedding is returned unchanged,
\* with its modality.
CombinedIsElementwiseMean ==
    (call.made /\ call.embs # <<>> /\ SameLength(call.embs)) =>
       /\ call.result.ok
       /\ DOMAIN call.result.vector = DOMAIN call.embs[1]
       /\ \A i \in DOMAIN call.result.vector :
             IsMeanOf(call.result.vector[i],
                      [k \in DOMAIN call.embs |-> call.embs[k][i]])
       /\ Len(call.embs) = 1 =>
             /\ call.result.vector = call.embs[1]
             /\ call.result.modality = call.modalities[1]

\* two different embeddings of one length were combined into a third vector
CombinedTwoDistinct ==
    /\ call.made
    /\ Len(call.embs) = 2
    /\ SameLength(call.embs)
    /\ call.embs[1] # call.embs[2]
    /\ call.result.ok
    /\ call.result.vector # call.embs[1]
    /\ call.result.vector # call.embs[2]

\* the number of inputs labelled m, and the position of the first of them
Occurrences(labels, m) == Cardinality({k \in DOMAIN labels : labels[k] = m})

FirstOccurrence(labels, m) ==
    CHOOSE k \in DOMAIN labels :
       labels[k] = m /\ \A j \in 1..(k - 1) : labels[j] # m

\* C11: the modality the combiner returns is a most frequent label of its
\* inputs, and among equally frequent labels the one that occurs first.
CombinedModalityIsFirstMostFrequent ==
    (call.made /\ call.result.ok) =>
       LET labels == call.modalities
           m      == call.result.modality
       IN  /\ \E k \in DOMAIN labels : labels[k] = m
           /\ \A k \in DOMAIN labels :
                 \/ Occurrences(labels, labels[k]) < Occurrences(labels, m)
                 \/ /\ Occurrences(labels, labels[k]) = Occurrences(labels, m)
                    /\ FirstOccurrence(labels, m) <= FirstOccurrence(labels, labels[k])

\* three parts were combined and the majority label, not the label of the
\* first part, was returned
MajorityBeatFirstPart ==
    /\ call.made
    /\ call.result.ok
    /\ Len(call.modalities) = 3
    /\ call.result.modality # call.modalities[1]
    /\ Occurrences(call.modalities, call.result.modality) = 2

\* C12: for an empty list of embeddings, and for a list in which two
\* embeddings differ in length, the combiner returns the error value: no
\* vector and no modality.
InvalidInputYieldsNoEmbedding ==
    (call.made /\ (call.embs = <<>> \/ ~SameLength(call.embs))) =>
       /\ ~call.result.ok
       /\ call.result.vector = <<>>
       /\ call.result.modality = "none"

\* embeddings of different lengths were given to the combiner
MismatchedLengthsRejected ==
    /\ call.made
    /\ Len(call.embs) >= 2
    /\ ~SameLength(call.embs)
    /\ call.result = NoEmbedding

\* the contents of the user in the modalities the search asked for
AskedRows == UNION {EligibleRows(resp.user, m) : m \in {n \in Modalities : Asked(n)}}

-----------------------------------------------------------------------------
(* The purge sweep: properties *)

\* a step of the sweep: sweep' is its report
SweepStep == ~sweep.made /\ sweep'.made

\* the files of the visited directories older than the threshold
OldScannedFiles ==
    {e \in ScannedEntries : e.kind = "file" /\ e.age > AgeThreshold}

\* C14: a sweep in which no file operation raises deletes exactly the files of
\* the visited per-user directories that are strictly older than the
\* threshold, returns their number, and leaves in place every other entry and
\* every directory that still contains a file.
SweepDeletesExactlyOldFiles ==
    [][(SweepStep /\ ~sweep'.raised) =>
          /\ disk'.entries = disk.entries \ OldScannedFiles
          /\ sweep'.files_deleted = Cardinality(OldScannedFiles)
          /\ \A d \in disk.dirs :
                (\E e \in disk'.entries : e.dir = d /\ e.kind = "file") =>
                   d \in disk'.dirs]_vars

\* a sweep deleted one file and left a file one hour old, and its directory,
\* in place
SweepDeletedOneKeptNewer ==
    /\ sweep.made
    /\ ~sweep.raised
    /\ sweep.files_deleted = 1
    /\ \E u \in Users : \E e \in disk.entries :
          /\ e.dir = ScannedDir(u)
          /\ e.kind = "file"
          /\ e.age = 1
          /\ e.dir \in disk.dirs

\* C15: a sweep deletes every file saved by save_query_file that is older than
\* the threshold, and deletes no file of the permanent content area.
SweepPurgesScratchAreaOnly ==
    [][SweepStep =>
          /\ \A e \in disk.entries :
                ((\E u \in Users : e.dir = ScratchDir(u)) /\ e.age > AgeThreshold) =>
                   e \notin disk'.entries
          /\ \A e \in disk.entries :
                (\E u \in Users : e.dir = ContentDir(u)) => e \in disk'.entries]_vars

\* C16: in a sweep in which one file operation raises, every other file of the
\* visited directories that is older than the threshold is still deleted, and
\* the count returned is the number of files the sweep deleted.
SweepSkipsFailingFile ==
    [][SweepStep =>
          /\ \A e \in OldScannedFiles : e # sweep'.failed => e \notin disk'.entries
          /\ sweep'.files_deleted = Cardinality(disk.entries \ disk'.entries)]_vars

-----------------------------------------------------------------------------
(* Query embedding: properties *)

\* the vectors of the jobs of the request just answered that came to their
\* result within the wait
InTimeVectors ==
    LET done == SelectSeq(resp.enqueued, LAMBDA part : part.outcome = "success")
    IN  [k \in DOMAIN done |-> done[k].vector]

TimedOut(part) == part.outcome = "timeout"

Unsupported(part) == part.kind = "file" /\ part.ext \notin DOMAIN EXTENSION_TO_MODALITY

\* C18: an upload that is rejected leaves jobs and tasks as they are, and a
\* search rejected for a file of an extension without modality has enqueued
\* no job.
UnsupportedRejectedBeforeAnyJob ==
    [][/\ (Idle /\ resp'.op = "create_content" /\ resp'.code = 400)
             => jobs' = jobs /\ tasks' = tasks
       /\ (/\ Idle /\ resp'.op = "search" /\ resp'.code = 400
           /\ \E k \in DOMAIN resp'.request : Unsupported(resp'.request[k]))
             => resp'.enqueued = <<>>]_vars

\* a usable part whose job comes to its result within the wait
Embeddable(part) == part.kind # "blank" /\ part.outcome = "success"

\* C19: a search all of whose files have a modality fails exactly when no
\* part came to an embedding, and otherwise is answered from the mean of the
\* embeddings of the parts that did.
FailedPartDropsOnlyItself ==
    (/\ resp.op = "search"
     /\ \A k \in DOMAIN resp.request : ~Unsupported(resp.request[k]))
       => IF \A k \in DOMAIN resp.request : ~Embeddable(resp.request[k])
          THEN resp.code # 200
          ELSE /\ SearchDone
               /\ QueryVector =
                     MeanVector(LET ok == SelectSeq(resp.request, Embeddable)
                                IN  [k \in DOMAIN ok |-> ok[k].vector])

-----------------------------------------------------------------------------
(* Content rows: properties *)

\* C20: the embedding of every Content that has one carries the modality of
\* the extension of the Content's path.
EmbeddingCarriesCurrentModality ==
    \A c \in DOMAIN contents :
       contents[c].embedding_id # 0 =>
          embeddings[contents[c].embedding_id].modality
             = get_modality_from_extension(contents[c].ext)

-----------------------------------------------------------------------------
(* Errors of the store during a search *)

\* C21: a search whose nearest-neighbour statement the store rejected is not
\* answered as a success.
StoreErrorAbortsSearch ==
    (/\ resp.op = "search"
     /\ queries # <<>>
     /\ resp.arg < 0
     /\ \E m \in Modalities : Asked(m))
       => resp.code # 200

-----------------------------------------------------------------------------
(* Failed ingestion jobs *)

\* C22: a read that finds the job of a Task failed leaves the Task with
\* status FAILURE, a completion time and a failure message in its result.
FailedJobRecordedWithMessage ==
    [][TaskReadStep =>
          \A k \in DOMAIN resp'.view :
             LET v == resp'.view[k]
             IN  (~v.raised /\ LiveStatus(v.task_id) = "FAILURE") =>
                   /\ tasks'[v.id].status = "FAILURE"
                   /\ tasks'[v.id].completed_at > 0
                   /\ tasks'[v.id].result # <<>>]_vars

-----------------------------------------------------------------------------
(* Scope of a search *)

\* C23: every content a search returns, and every content a SearchRecord of
\* a query references, is owned by the user who posed the query.
ResultsScopedToUser ==
    /\ resp.op = "search" =>
          \A k \in DOMAIN resp.results :
             contents[resp.results[k].content_id].user_id = resp.user
    /\ \A k \in DOMAIN search_records :
          contents[search_records[k].content_id].user_id
             = queries[search_records[k].query_id].user_id

\* a search returned and recorded a content of its user while a content of
\* another user, of a modality asked for and above the threshold, was stored
\* and the limit admitted both
OtherUsersContentLeftOut ==
    /\ SearchDone
    /\ resp.results # <<>>
    /\ search_records # <<>>
    /\ resp.arg >= Len(contents)
    /\ \E c \in DOMAIN contents :
          /\ contents[c].user_id # resp.user
          /\ contents[c].embedding_id \in DOMAIN embeddings
          /\ Asked(embeddings[contents[c].embedding_id].modality)
          /\ AboveThreshold(c, embeddings[contents[c].embedding_id].modality)

-----------------------------------------------------------------------------
(* Requests without a usable part *)

NoUsablePart(request) == \A k \in DOMAIN request : request[k].kind = "blank"

\* C24: a search whose text is missing, empty or whitespace and that has no
\* file is answered 400, enqueues no job and writes no Query, Embedding or
\* SearchRecord row.
NoUsablePartRejected ==
    [][(SearchStep /\ NoUsablePart(resp'.request)) =>
          /\ resp'.code = 400
          /\ resp'.enqueued = <<>>
          /\ queries' = queries
          /\ embeddings' = embeddings
          /\ search_records' = search_records]_vars

\* a search with a whitespace text and no file was rejected while the user
\* had an embedded content
BlankTextRejected ==
    /\ resp.op = "search"
    /\ resp.code = 400
    /\ resp.request # <<>>
    /\ NoUsablePart(resp.request)
    /\ embeddings # <<>>

-----------------------------------------------------------------------------
(* Uploads: properties *)

\* a step of create_content: resp' is its response
CreateStep == Idle /\ resp'.op = "create_content"

\* C25: every job an upload enqueues has, at the response, exactly one Task
\* row with its id, PENDING, of the new Content and of the caller; an upload
\* that enqueues no job is not answered as created.
EveryEnqueuedJobHasTask ==
    [][CreateStep =>
          /\ \A j \in (DOMAIN jobs') \ (DOMAIN jobs) :
                /\ Cardinality({i \in DOMAIN tasks' : tasks'[i].task_id = j}) = 1
                /\ \A i \in DOMAIN tasks' :
                      tasks'[i].task_id = j =>
                         /\ tasks'[i].status = "PENDING"
                         /\ tasks'[i].content_id = jobs'[j].content_id
                         /\ tasks'[i].user_id = resp'.user
          /\ jobs' = jobs => resp'.code # 201]_vars

\* C30: an upload that is not answered as created leaves no Content row
\* behind.
FailedUploadLeavesNoContent ==
    [][(CreateStep /\ resp'.code # 201) => contents' = contents]_vars

-----------------------------------------------------------------------------
(* Task rows: properties *)

\* C29: a Task row has a completion time exactly when its status is SUCCESS
\* or FAILURE, and a result only when its status is SUCCESS.
TaskFieldsMatchStatus ==
    \A i \in DOMAIN tasks :
       /\ tasks[i].completed_at # 0 <=> tasks[i].status \in Terminal
       /\ tasks[i].result # <<>> => tasks[i].status = "SUCCESS"

-----------------------------------------------------------------------------
(* The sweep and a query upload: properties *)

ScratchEntries == {e \in disk.entries : \E u \in Users : e.dir = ScratchDir(u)}

\* C26: however the steps of a sweep and of a query upload interleave, the
\* upload's write succeeds and its file is there when the upload is done,
\* and no step of a sweep removes a file of the scratch area that is not
\* older than the threshold.
UploadSafeFromSweep ==
    [][/\ upload'.pc = "done" =>
             /\ upload'.ok
             /\ \E e \in disk'.entries :
                   e.dir = ScratchDir(upload'.user) /\ e.name = upload'.name
       /\ walk.pc # "idle" =>
             \A e \in ScratchEntries : ~Old(e.age) => e \in disk'.entries]_vars

\* an upload made sure of its directory while a sweep stood before the
\* os.rmdir of an empty directory, and wrote its file after that os.rmdir
SweepRemovedDirDuringUpload ==
    /\ upload.pc = "done"
    /\ upload.ok
    /\ upload.ensured_at = "rmdir"
    /\ upload.wrote_at = "dirs"
    /\ walk.d \notin disk.dirs

-----------------------------------------------------------------------------
(* The model singleton: properties *)

\* C27: the model is constructed at most once in a worker process, and no
\* caller is past _initialize_model while the model is set and one of the
\* pipelines is not.
ModelConstructedOnce ==
    /\ runtime.constructed <= 1
    /\ \A w \in Workers :
          (runtime.pc[w] \in {"pipeline", "encode"} /\ runtime.model) =>
             runtime.image /\ runtime.audio /\ runtime.text

====
